---- MODULE Spec2Model ----
(***************************************************************************)
(* Verification model of the derivative dynamic time warping distance      *)
(* (sktime/distances/_ddtw.py) and of the MiniRocket transformers          *)
(* (sktime/transformations/panel/rocket/_minirocket*.py).                  *)
(*                                                                         *)
(* Numbers.  Sample values are integers.  _average_of_slope multiplies by  *)
(* 0.25, 0.5 and 0.75, so every derivative value is kept in QUARTER units  *)
(* (the stored integer d stands for d/4); squared distances of derivative  *)
(* points are then in 1/16 units.  The scaling is uniform, so equalities   *)
(* and orderings of costs are those of the real values.                    *)
(* A forbidden mask cell and an infinite cost are the integer -1.          *)
(***************************************************************************)
EXTENDS Integers, Sequences, FiniteSets, TLC

\* ------------------------------------------------------------------ bounds
MaxVal == 1
MaxLen == 5
MaxWidth == 2
MaxFacLen == 3
MaxWindow == 1
MaxSlope == 2
MaxConcLen == 4
CpuCount == 3
MaxJobs == 4
MaxTimepoints == 10

VARIABLES
    q, q0, dq,                      \* direct call of the derivative preprocessor
    args, closure, facErr,          \* last factory build: arguments, returned callable, error
    callX, callY, res,              \* last sequential call of the returned callable
    bufX, bufY, snap,               \* concurrent callers: input arrays; arrays and closure at call time
    locX, locY, pc, ret,            \* concurrent callers: locals _x, _y, position, returned value
    numThreads,                     \* numba's thread-count setting of the process
    cls, nJobs, parameters,         \* the estimator: class, self.n_jobs, self.parameters
    lastCall                        \* the last estimator call and how it ended

derivVars == <<q, q0, dq>>
facVars == <<args, closure, facErr>>
callVars == <<callX, callY, res>>
concVars == <<bufX, bufY, snap, locX, locY, pc, ret>>
rocketVars == <<numThreads, cls, nJobs, parameters, lastCall>>
vars == <<derivVars, facVars, callVars, concVars, rocketVars>>

\* ------------------------------------------------------------------ series
Min(a, b) == IF a <= b THEN a ELSE b
Max(a, b) == IF a >= b THEN a ELSE b

\* All sequences over S of length exactly n, and of length lo..hi.
RECURSIVE SeqsOfLen(_, _)
SeqsOfLen(S, n) ==
    IF n = 0 THEN {<<>>}
    ELSE {Append(s, v) : s \in SeqsOfLen(S, n - 1), v \in S}

SeqsUpTo(S, lo, hi) == UNION {SeqsOfLen(S, n) : n \in lo..hi}

Points(w) == SeqsOfLen(0..MaxVal, w)
\* 2d arrays (time axis x channel axis) of channel width w.
SeriesOfWidth(w, lo, hi) == SeqsUpTo(Points(w), lo, hi)
Series == SeriesOfWidth(1, 0, MaxLen)
\* Single-channel series of every length; multi-channel ones up to length 3, the
\* shortest with a derivative.
AnySeries == Series \cup UNION {SeriesOfWidth(w, 0, 3) : w \in 2..MaxWidth}
\* Non-decreasing single-channel series: the family the calls on values draw from.
IsRamp(s) == \A i \in 1..(Len(s) - 1) : s[i][1] <= s[i + 1][1]
Ramps(hi) == {s \in SeriesOfWidth(1, 0, hi) : IsRamp(s)}

\* ------------------------------------------------------------------ numpy
\* Python's clamping of a slice bound k on an axis of length n.
NormIdx(k, n) == IF k < 0 THEN Max(n + k, 0) ELSE Min(k, n)
\* a[lo:hi] along the time axis (lo, hi already clamped).
Cut(a, lo, hi) == IF hi <= lo THEN <<>> ELSE SubSeq(a, lo + 1, hi)
SliceFrom(a, k) == Cut(a, NormIdx(k, Len(a)), Len(a))               \* a[k:]
SliceTo(a, k) == Cut(a, 0, NormIdx(k, Len(a)))                      \* a[:k]
Slice(a, j, k) == Cut(a, NormIdx(j, Len(a)), NormIdx(k, Len(a)))    \* a[j:k]

\* c * a for c = k/4, result in quarter units.
Scale(k, a) == [i \in 1..Len(a) |-> [c \in 1..Len(a[i]) |-> k * a[i][c]]]
\* Elementwise a + b and a - b of arrays of one shape.
ArrAdd(a, b) == [i \in 1..Len(a) |-> [c \in 1..Len(a[i]) |-> a[i][c] + b[i][c]]]
ArrSub(a, b) == [i \in 1..Len(a) |-> [c \in 1..Len(a[i]) |-> a[i][c] - b[i][c]]]

\* ------------------------------------------------------------------ _ddtw.py
\* A slip of the slices: the centre term taken from q[1:-1] twice.
AverageOfSlopeShifted(s) ==
    ArrSub(ArrAdd(Scale(1, SliceFrom(s, 2)), Scale(2, Slice(s, 1, -1))),
           Scale(3, Slice(s, 1, -1)))

\* return 0.25 * q[2:] + 0.5 * q[1:-1] - 0.75 * q[:-2]     (quarter units)
_average_of_slope(s) ==
    ArrSub(ArrAdd(Scale(1, SliceFrom(s, 2)), Scale(2, Slice(s, 1, -1))),
           Scale(3, SliceTo(s, -2)))

NotCalled == [called |-> FALSE, err |-> "none", val |-> <<>>]
Returned(v) == [called |-> TRUE, err |-> "none", val |-> v]

\* A direct call _average_of_slope(q): the function has no raise statement and
\* only reads q.
CallAverageOfSlope ==
    /\ ~dq.called
    /\ dq' = Returned(_average_of_slope(q))
    /\ UNCHANGED <<q, q0>>
    /\ UNCHANGED <<facVars, callVars, concVars, rocketVars>>

\* ------------------------------------------------------------------ bounding masks
\* A mask is a sequence of rows of cells, 0 (allowed) or -1 (infinity).
Rows(m) == Len(m)
Cols(m) == IF Len(m) = 0 THEN 0 ELSE Len(m[1])
Abs(a) == IF a < 0 THEN -a ELSE a

NO_BOUNDING == 1
SAKOE_CHIBA == 2
ITAKURA_PARALLELOGRAM == 3

IsCorner(i, j, lx, ly) == (i = 0 /\ j = 0) \/ (i = lx - 1 /\ j = ly - 1)
\* |i * (lenY / lenX) - j| <= r, cleared of the division.
InSakoeChiba(i, j, lx, ly, r) == Abs(i * ly - j * lx) <= r * lx
\* Between the lines of slope s and 1/s through (0,0) and through the far corner.
InItakura(i, j, lx, ly, s) ==
    /\ j <= s * i
    /\ s * j >= i
    /\ (ly - 1 - j) <= s * (lx - 1 - i)
    /\ s * (ly - 1 - j) >= (lx - 1 - i)

Allowed(i, j, lx, ly, lb, window, slope) ==
    CASE lb = NO_BOUNDING -> TRUE
      [] lb = SAKOE_CHIBA -> InSakoeChiba(i, j, lx, ly, window) \/ IsCorner(i, j, lx, ly)
      [] OTHER -> InItakura(i, j, lx, ly, slope) \/ IsCorner(i, j, lx, ly)

\* BoundingMaskBuilder.build for valid parameters.
create_bounding_matrix(lx, ly, lb, window, slope) ==
    [i \in 1..lx |-> [j \in 1..ly |->
        IF Allowed(i - 1, j - 1, lx, ly, lb, window, slope) THEN 0 ELSE -1]]

NoMask == <<>>
Ok(v) == [err |-> "none", val |-> v]
Err(e) == [err |-> e, val |-> <<>>]

\* resolve_bounding_matrix(x, y, lower_bounding, window, itakura_max_slope,
\* bounding_matrix); hasMask is "bounding_matrix is not None".
resolve_bounding_matrix(x, y, lb, window, slope, hasMask, bm) ==
    IF hasMask THEN Ok(bm)
    ELSE IF window < 0 \/ slope <= 0 \/ Len(x) < 1 \/ Len(y) < 1 \/ lb \notin 1..3
         THEN Err("InvalidParameterError")
         ELSE Ok(create_bounding_matrix(Len(x), Len(y), lb, window, slope))

\* ------------------------------------------------------------------ DP core
RECURSIVE SumSq(_, _, _)
SumSq(p, r, c) ==
    IF c = 0 THEN 0 ELSE (p[c] - r[c]) * (p[c] - r[c]) + SumSq(p, r, c - 1)
\* The default pointwise distance, _SquaredDistance.
SquaredDistance(p, r) == SumSq(p, r, Len(p))

IsInf(c) == c < 0
MinCost(a, b) == IF IsInf(a) THEN b ELSE IF IsInf(b) THEN a ELSE Min(a, b)
MaxCost(a, b) == IF IsInf(a) THEN b ELSE IF IsInf(b) THEN a ELSE Max(a, b)

\* One cell of the recurrence; a slip takes the dearest predecessor.
CellMax(d, up, left, diag) ==
    LET best == MaxCost(up, MaxCost(left, diag)) IN IF IsInf(best) THEN -1 ELSE d + best

Cell(d, up, left, diag) ==
    LET best == MinCost(up, MinCost(left, diag)) IN IF IsInf(best) THEN -1 ELSE d + best

\* Row i of the (lenX+1) x (lenY+1) cost table from row i-1 (prev); acc holds
\* the columns 0..Len(acc)-1 of row i already filled.
RECURSIVE CostRow(_, _, _, _, _)
CostRow(acc, prev, xi, y, mrow) ==
    LET j == Len(acc) IN
    IF j > Len(y) THEN acc
    ELSE CostRow(Append(acc,
                        IF IsInf(mrow[j]) THEN -1
                        ELSE Cell(SquaredDistance(xi, y[j]), prev[j + 1], acc[j], prev[j])),
                 prev, xi, y, mrow)

RECURSIVE CostTable(_, _, _, _, _)
CostTable(prev, i, x, y, mask) ==
    IF i > Len(x) THEN prev
    ELSE CostTable(CostRow(<<-1>>, prev, x[i], y, mask[i]), i + 1, x, y, mask)

\* Row 0: cell (0,0) is 0, the rest infinity.
Row0(ly) == [j \in 1..(ly + 1) |-> IF j = 1 THEN 0 ELSE -1]

WidthsAgree(x, y) == \A i \in 1..Len(x) : \A j \in 1..Len(y) : Len(x[i]) = Len(y[j])

\* DPRecurrence.compute(seriesX, seriesY, mask, pointwiseDistance).
_dtw_numba_distance(x, y, mask) ==
    IF Rows(mask) # Len(x) \/ Cols(mask) # Len(y) \/ ~WidthsAgree(x, y)
    THEN [err |-> "ShapeMismatchError", val |-> -1]
    ELSE LET last == CostTable(Row0(Len(y)), 1, x, y, mask)
             cost == last[Len(y) + 1]
         IN IF IsInf(cost) THEN [err |-> "NoValidPathError", val |-> -1]
            ELSE [err |-> "none", val |-> cost]

\* ------------------------------------------------------------------ the factory
\* Callables a caller may pass as compute_derivative: the default (njit compiled),
\* a plain Python function, and a callable object without a __name__.
AverageOfSlope == [name |-> "_average_of_slope", compiled |-> TRUE, named |-> TRUE]
PythonFunction == [name |-> "python_function", compiled |-> FALSE, named |-> TRUE]
PartialObject == [name |-> "partial_object", compiled |-> FALSE, named |-> FALSE]
Derivatives == {AverageOfSlope, PythonFunction, PartialObject}

is_no_python_compiled_callable(cd) == cd.compiled
\* Every compiled callable of Derivatives is _average_of_slope.
compute_derivative(cd, s) == _average_of_slope(s)

NoClosure == [built |-> FALSE, mask |-> NoMask, derivative |-> AverageOfSlope]

\* raise (f"... {compute_derivative.__name__}"): the f-string is evaluated first
\* (AttributeError without a __name__), then a str is raised, which Python
\* answers with TypeError: exceptions must derive from BaseException.
RaiseString(cd) == IF cd.named THEN "TypeError" ELSE "AttributeError"

\* A slip: the explicit matrix is not passed on.
DistanceFactoryDropsMask(a) ==
    LET bm == resolve_bounding_matrix(a.x, a.y, a.lower_bounding, a.window,
                                      a.itakura_max_slope, FALSE, NoMask)
    IN IF bm.err # "none" THEN [err |-> bm.err, closure |-> NoClosure]
       ELSE IF ~is_no_python_compiled_callable(a.compute_derivative)
            THEN [err |-> RaiseString(a.compute_derivative), closure |-> NoClosure]
            ELSE [err |-> "none",
                  closure |-> [built |-> TRUE, mask |-> bm.val,
                               derivative |-> a.compute_derivative]]

\* _DdtwDistance._distance_factory; custom_distance is the default squared distance.
_distance_factory(a) ==
    LET bm == resolve_bounding_matrix(a.x, a.y, a.lower_bounding, a.window,
                                      a.itakura_max_slope, a.hasMask, a.bounding_matrix)
    IN IF bm.err # "none" THEN [err |-> bm.err, closure |-> NoClosure]
       ELSE IF ~is_no_python_compiled_callable(a.compute_derivative)
            THEN [err |-> RaiseString(a.compute_derivative), closure |-> NoClosure]
            ELSE [err |-> "none",
                  closure |-> [built |-> TRUE, mask |-> bm.val,
                               derivative |-> a.compute_derivative]]

NoDp == [reached |-> FALSE, x |-> <<>>, y |-> <<>>, mask |-> NoMask]
NoResult == [called |-> FALSE, err |-> "none", val |-> -1, dp |-> NoDp]

\* A slip: _y reaches the DP core without its derivative.
NumbaDdtwDistanceRawY(cl, x, y) ==
    LET dx == compute_derivative(cl.derivative, x)
        r == _dtw_numba_distance(dx, y, cl.mask)
    IN [called |-> TRUE, err |-> r.err, val |-> r.val,
        dp |-> [reached |-> TRUE, x |-> dx, y |-> y, mask |-> cl.mask]]

\* The closure numba_ddtw_distance(_x, _y) over cl = (_bounding_matrix,
\* compute_derivative, _custom_distance); dp records what the DP core is handed.
numba_ddtw_distance(cl, x, y) ==
    LET dx == compute_derivative(cl.derivative, x)
        dy == compute_derivative(cl.derivative, y)
        r == _dtw_numba_distance(dx, dy, cl.mask)
    IN [called |-> TRUE, err |-> r.err, val |-> r.val,
        dp |-> [reached |-> TRUE, x |-> dx, y |-> dy, mask |-> cl.mask]]

\* ---- arguments
Zeros(n) == [i \in 1..n |-> <<0>>]
\* The factory reads only the shapes of x and y: one series of each length.
FacSeries == {Zeros(n) : n \in 1..MaxFacLen}
Strategies == {NO_BOUNDING, SAKOE_CHIBA, ITAKURA_PARALLELOGRAM}
Windows == 0..MaxWindow
Slopes == 1..MaxSlope
\* Precomputed masks a caller may hand in.
ExplicitMasks ==
    {create_bounding_matrix(n, m, lb, 0, 1) :
        n \in 1..MaxFacLen, m \in 1..MaxFacLen, lb \in Strategies}
SquareMasks ==
    {create_bounding_matrix(n, n, lb, 0, 1) : n \in 1..MaxFacLen, lb \in Strategies}

ArgsWith(X, Masks, Ds) ==
    [x : X, y : X, lower_bounding : Strategies, window : Windows,
     itakura_max_slope : Slopes, hasMask : {FALSE}, bounding_matrix : {NoMask},
     compute_derivative : Ds]
    \cup
    [x : X, y : X, lower_bounding : Strategies, window : Windows,
     itakura_max_slope : Slopes, hasMask : {TRUE}, bounding_matrix : Masks,
     compute_derivative : Ds]

AllArgs == ArgsWith(FacSeries, ExplicitMasks, Derivatives)
CompiledArgs == ArgsWith(FacSeries, SquareMasks, {AverageOfSlope})
NoArgs == [x |-> <<>>, y |-> <<>>, lower_bounding |-> NO_BOUNDING, window |-> 0,
           itakura_max_slope |-> 1, hasMask |-> FALSE, bounding_matrix |-> NoMask,
           compute_derivative |-> AverageOfSlope]

\* ---- actions
\* distance = _DdtwDistance()._distance_factory(x, y, ...), arguments from A.
\* The factory and the callable are functions of their arguments, so a behaviour
\* holds one build and one call: later ones reach no other states.
Build(A) ==
    /\ args = NoArgs
    /\ \E a \in A :
         /\ args' = a
         /\ closure' = _distance_factory(a).closure
         /\ facErr' = _distance_factory(a).err
    /\ callX' = <<>> /\ callY' = <<>> /\ res' = NoResult
    /\ UNCHANGED <<derivVars, concVars, rocketVars>>

\* distance(_x, _y) on the callable of the last successful build, series from S.
Call(S) ==
    /\ closure.built
    /\ ~res.called
    /\ \E x \in S, y \in S :
         /\ callX' = x
         /\ callY' = y
         /\ res' = numba_ddtw_distance(closure, x, y)
    /\ UNCHANGED <<derivVars, facVars, concVars, rocketVars>>

\* ------------------------------------------------------------------ concurrent callers
Callers == {1, 2}
ConcSeries == Ramps(MaxConcLen)
\* Builds on two series of one length, up to the longest derivative.
ConcArgs ==
    {a \in ArgsWith({Zeros(n) : n \in 1..(MaxConcLen - 2)}, {}, {AverageOfSlope}) :
        a.x = a.y}
NoSnap == [x |-> <<>>, y |-> <<>>, cl |-> NoClosure]

\* Caller t enters numba_ddtw_distance(_x, _y) with its own arrays: the
\* parameters _x, _y are bound to them.
Invoke(t) ==
    /\ pc[t] \in {"idle", "done"}
    /\ snap' = [snap EXCEPT ![t] = [x |-> bufX[t], y |-> bufY[t], cl |-> closure]]
    /\ locX' = [locX EXCEPT ![t] = bufX[t]]
    /\ locY' = [locY EXCEPT ![t] = bufY[t]]
    /\ pc' = [pc EXCEPT ![t] = "derive_x"]
    /\ ret' = [ret EXCEPT ![t] = [err |-> "none", val |-> -1]]
    /\ UNCHANGED <<bufX, bufY>>
    /\ UNCHANGED <<derivVars, facVars, callVars, rocketVars>>

\* A slip: _x kept in one variable of the closure, shared by all invocations.
DeriveXShared(t) ==
    /\ pc[t] = "derive_x"
    /\ locX' = [u \in Callers |-> compute_derivative(closure.derivative, locX[t])]
    /\ pc' = [pc EXCEPT ![t] = "derive_y"]
    /\ UNCHANGED <<bufX, bufY, snap, locY, ret>>
    /\ UNCHANGED <<derivVars, facVars, callVars, rocketVars>>

\* _x = compute_derivative(_x): the local is rebound to a new array.
DeriveX(t) ==
    /\ pc[t] = "derive_x"
    /\ locX' = [locX EXCEPT ![t] = compute_derivative(closure.derivative, locX[t])]
    /\ pc' = [pc EXCEPT ![t] = "derive_y"]
    /\ UNCHANGED <<bufX, bufY, snap, locY, ret>>
    /\ UNCHANGED <<derivVars, facVars, callVars, rocketVars>>

\* _y = compute_derivative(_y)
DeriveY(t) ==
    /\ pc[t] = "derive_y"
    /\ locY' = [locY EXCEPT ![t] = compute_derivative(closure.derivative, locY[t])]
    /\ pc' = [pc EXCEPT ![t] = "dp"]
    /\ UNCHANGED <<bufX, bufY, snap, locX, ret>>
    /\ UNCHANGED <<derivVars, facVars, callVars, rocketVars>>

\* return _dtw_numba_distance(_x, _y, _custom_distance, _bounding_matrix)
RunDp(t) ==
    /\ pc[t] = "dp"
    /\ ret' = [ret EXCEPT ![t] = _dtw_numba_distance(locX[t], locY[t], closure.mask)]
    /\ pc' = [pc EXCEPT ![t] = "done"]
    /\ UNCHANGED <<bufX, bufY, snap, locX, locY>>
    /\ UNCHANGED <<derivVars, facVars, callVars, rocketVars>>

\* ------------------------------------------------------------------ _minirocket*.py
MinTimepoints == 9
Classes == {"MiniRocket", "MiniRocketMultivariate"}
Unset == [set |-> FALSE, n_timepoints |-> 0]
\* What the numba _fit / _fit_multi returns for a panel of series length n.
Fitted(n) == [set |-> TRUE, n_timepoints |-> n]
NoCall == [op |-> "none", n |-> 0, err |-> "none", before |-> 0]

\* MiniRocket(n_jobs=j) / MiniRocketMultivariate(n_jobs=j): parameters is not
\* assigned by __init__.
Construct(c, j) ==
    /\ cls' = c
    /\ nJobs' = j
    /\ parameters' = Unset
    /\ lastCall' = NoCall
    /\ UNCHANGED numThreads
    /\ UNCHANGED <<derivVars, facVars, callVars, concVars>>

\* A slip of the comparison: n_timepoints <= 9.
FitOffByOne(n) ==
    /\ cls \in Classes
    /\ IF n <= MinTimepoints
       THEN /\ lastCall' = [op |-> "fit", n |-> n, err |-> "ValueError", before |-> 0]
            /\ UNCHANGED parameters
       ELSE /\ lastCall' = [op |-> "fit", n |-> n, err |-> "none", before |-> 0]
            /\ parameters' = Fitted(n)
    /\ UNCHANGED <<numThreads, cls, nJobs>>
    /\ UNCHANGED <<derivVars, facVars, callVars, concVars>>

\* _fit(X) on a panel whose series length is n.
Fit(n) ==
    /\ cls \in Classes
    /\ IF n < MinTimepoints
       THEN /\ lastCall' = [op |-> "fit", n |-> n, err |-> "ValueError", before |-> 0]
            /\ UNCHANGED parameters
       ELSE /\ lastCall' = [op |-> "fit", n |-> n, err |-> "none", before |-> 0]
            /\ parameters' = Fitted(n)
    /\ UNCHANGED <<numThreads, cls, nJobs>>
    /\ UNCHANGED <<derivVars, facVars, callVars, concVars>>

\* n_jobs as _transform resolves it.
EffectiveJobs(j) == IF j < 1 \/ j > CpuCount THEN CpuCount ELSE j

\* _transform(X): prev_threads = get_num_threads(); set_num_threads(n_jobs);
\* the inner transform; set_num_threads(prev_threads).  Reading self.parameters
\* before a fit raises AttributeError, and the inner transform may raise
\* (innerRaises); neither is caught, so the restoring call is skipped.
Transform(innerRaises) ==
    /\ cls \in Classes
    /\ IF ~parameters.set
       THEN /\ numThreads' = EffectiveJobs(nJobs)
            /\ lastCall' = [op |-> "transform", n |-> 0, err |-> "AttributeError",
                            before |-> numThreads]
       ELSE IF innerRaises
       THEN /\ numThreads' = EffectiveJobs(nJobs)
            /\ lastCall' = [op |-> "transform", n |-> 0, err |-> "InnerError",
                            before |-> numThreads]
       ELSE /\ numThreads' = numThreads
            /\ lastCall' = [op |-> "transform", n |-> 0, err |-> "none",
                            before |-> numThreads]
    /\ UNCHANGED <<cls, nJobs, parameters>>
    /\ UNCHANGED <<derivVars, facVars, callVars, concVars>>

\* Other code of the process calls numba.set_num_threads(k).
SetNumThreads(k) ==
    /\ numThreads' = k
    /\ lastCall' = NoCall
    /\ UNCHANGED <<cls, nJobs, parameters>>
    /\ UNCHANGED <<derivVars, facVars, callVars, concVars>>

\* ------------------------------------------------------------------ specifications
DerivIdle == q = <<>> /\ q0 = <<>> /\ dq = NotCalled
FacIdle == args = NoArgs /\ closure = NoClosure /\ facErr = "none"
CallIdle == callX = <<>> /\ callY = <<>> /\ res = NoResult
ConcIdle ==
    /\ bufX = [t \in Callers |-> <<>>]
    /\ bufY = [t \in Callers |-> <<>>]
    /\ snap = [t \in Callers |-> NoSnap]
    /\ locX = [t \in Callers |-> <<>>]
    /\ locY = [t \in Callers |-> <<>>]
    /\ pc = [t \in Callers |-> "idle"]
    /\ ret = [t \in Callers |-> [err |-> "none", val |-> -1]]
RocketIdle ==
    /\ numThreads = CpuCount
    /\ cls = "none"
    /\ nJobs = 1
    /\ parameters = Unset
    /\ lastCall = NoCall

\* The derivative preprocessor alone, on every array of the bounds.
InitDeriv ==
    /\ \E s \in AnySeries : q = s /\ q0 = s
    /\ dq = NotCalled
    /\ FacIdle /\ CallIdle /\ ConcIdle /\ RocketIdle
NextDeriv == CallAverageOfSlope
SpecDeriv == InitDeriv /\ [][NextDeriv]_vars

\* Factory builds with every argument combination.
Init == DerivIdle /\ FacIdle /\ CallIdle /\ ConcIdle /\ RocketIdle
Next == Build(AllArgs)
Spec == Init /\ [][Next]_vars

\* Builds and calls; only the shapes of the called series vary.
ShapeSeries == {Zeros(n) : n \in 0..MaxLen}
NextShape == Build(CompiledArgs) \/ Call(ShapeSeries)
SpecShape == Init /\ [][NextShape]_vars

\* Builds on the largest shape and calls on the ramps of the bounds: every
\* strategy, window and slope without an explicit mask, and each explicit mask
\* with the default strategy.
ValueArgs ==
    {a \in ArgsWith({Zeros(MaxFacLen)},
                    {create_bounding_matrix(MaxFacLen, MaxFacLen, lb, 0, 1) :
                        lb \in Strategies},
                    {AverageOfSlope}) :
        a.hasMask => /\ a.lower_bounding = NO_BOUNDING
                     /\ a.window = MaxWindow
                     /\ a.itakura_max_slope = MaxSlope}
NextValue == Build(ValueArgs) \/ Call(Ramps(MaxLen))
SpecValue == Init /\ [][NextValue]_vars

\* Two callers of one built callable, their steps interleaved; the callers hold
\* disjoint arrays, the second the pair of the first in the other order.
InitConc ==
    /\ DerivIdle /\ CallIdle /\ RocketIdle
    /\ args = NoArgs /\ facErr = "none"
    /\ closure \in {_distance_factory(a).closure : a \in ConcArgs}
    /\ \E x \in ConcSeries, y \in ConcSeries :
         /\ bufX = [t \in Callers |-> IF t = 1 THEN x ELSE y]
         /\ bufY = [t \in Callers |-> IF t = 1 THEN y ELSE x]
    /\ snap = [t \in Callers |-> NoSnap]
    /\ locX = [t \in Callers |-> <<>>]
    /\ locY = [t \in Callers |-> <<>>]
    /\ pc = [t \in Callers |-> "idle"]
    /\ ret = [t \in Callers |-> [err |-> "none", val |-> -1]]
NextConc == \E t \in Callers : Invoke(t) \/ DeriveX(t) \/ DeriveY(t) \/ RunDp(t)
SpecConc == InitConc /\ [][NextConc]_vars

\* One estimator at a time, fitted and applied in any order.
NextRocket ==
    \/ \E c \in Classes, j \in -1..MaxJobs : Construct(c, j)
    \/ \E n \in 1..MaxTimepoints : Fit(n)
    \/ \E b \in BOOLEAN : Transform(b)
    \/ \E k \in 1..CpuCount : SetNumThreads(k)
SpecRocket == Init /\ [][NextRocket]_vars

\* ------------------------------------------------------------------ claims
\* C1: in a call of the callable on series of the lengths its factory was given
\* (each long enough for a derivative), the built mask handed to the DP core has
\* the dimensions of the derivative series handed to the DP core.
C1_MaskHasDerivativeLengths ==
    (/\ res.called
     /\ ~args.hasMask
     /\ Len(callX) = Len(args.x) /\ Len(callY) = Len(args.y)
     /\ Len(callX) >= 3 /\ Len(callY) >= 3)
        => /\ Rows(res.dp.mask) = Len(res.dp.x)
           /\ Cols(res.dp.mask) = Len(res.dp.y)

\* C2: for a series of length n >= 3, _average_of_slope returns a series of
\* length n-2 of the same channel width whose point i is
\* 0.25*q[i+2] + 0.5*q[i+1] - 0.75*q[i] (here in quarter units), and q is as it was.
C2_DerivativeFormula ==
    (dq.called /\ Len(q0) >= 3)
        => /\ dq.err = "none"
           /\ Len(dq.val) = Len(q0) - 2
           /\ \A i \in 1..(Len(q0) - 2) :
                /\ Len(dq.val[i]) = Len(q0[i])
                /\ \A c \in 1..Len(q0[i]) :
                     dq.val[i][c] = q0[i + 2][c] + 2 * q0[i + 1][c] - 3 * q0[i][c]
           /\ q = q0

\* A two-or-more channel series of 3 points whose derivative differs by channel.
C2_Witness ==
    /\ dq.called
    /\ Len(q0) = 3
    /\ Len(q0[1]) = MaxWidth
    /\ dq.val[1][1] > 0
    /\ dq.val[1][MaxWidth] < 0

\* C3: a series of fewer than 3 points passed through the derivative
\* preprocessing fails with InsufficientLengthError and yields no series.
C3_ShortSeriesRejected ==
    (dq.called /\ Len(q0) < 3) => dq.err = "InsufficientLengthError"

\* C4: a factory build with a compute_derivative that is not no_python compiled
\* fails with the documented error (ValueError, the spec's
\* UnsupportedPreprocessorError) and returns no callable.
C4_UncompiledDerivativeRejected ==
    (args # NoArgs /\ ~args.compute_derivative.compiled)
        => /\ facErr \in {"ValueError", "UnsupportedPreprocessorError"}
           /\ ~closure.built

\* The derivative series of the called pair and the closed-over mask disagree.
ShapesDisagree ==
    \/ Len(compute_derivative(closure.derivative, callX)) # Rows(closure.mask)
    \/ Len(compute_derivative(closure.derivative, callY)) # Cols(closure.mask)

C6_ExplicitMaskOverrides ==
    (res.called /\ args.hasMask)
        => /\ closure.mask = args.bounding_matrix
           /\ \A lb \in Strategies, w \in Windows, sl \in Slopes :
                LET other == _distance_factory(
                                 [args EXCEPT !.lower_bounding = lb, !.window = w,
                                              !.itakura_max_slope = sl])
                IN /\ other.err = "none"
                   /\ other.closure.mask = closure.mask
                   /\ numba_ddtw_distance(other.closure, callX, callY) = res

\* The explicit mask is not the one the other parameters would build, and the
\* call returns a distance.
C6_Witness ==
    /\ res.called
    /\ args.hasMask
    /\ res.err = "none"
    /\ res.val > 0
    /\ args.bounding_matrix #
         create_bounding_matrix(Len(args.x), Len(args.y), args.lower_bounding,
                                args.window, args.itakura_max_slope)

\* C7: whatever the interleaving, a finished invocation has returned what the
\* callable returns on its arguments when run alone, and the caller's arrays
\* and the closed-over mask and derivative are as they were at the call.
C7_Reentrant ==
    \A t \in Callers :
        /\ pc[t] = "done" =>
             LET alone == numba_ddtw_distance(snap[t].cl, snap[t].x, snap[t].y)
             IN ret[t] = [err |-> alone.err, val |-> alone.val]
        /\ pc[t] # "idle" =>
             /\ bufX[t] = snap[t].x
             /\ bufY[t] = snap[t].y
             /\ closure = snap[t].cl

\* Caller 1 has finished with a distance while caller 2 is inside its call, on
\* other arrays.
C7_Witness ==
    /\ pc[1] = "done"
    /\ pc[2] = "dp"
    /\ ret[1].err = "none"
    /\ ret[1].val > 0
    /\ bufX[1] # bufX[2]

\* The cost the same build gives under NoBounding on the called pair.
UnboundedResult ==
    numba_ddtw_distance(
        _distance_factory([args EXCEPT !.lower_bounding = NO_BOUNDING]).closure,
        callX, callY)

StricterCall ==
    /\ res.called
    /\ res.err = "none"
    /\ ~args.hasMask
    /\ args.lower_bounding # NO_BOUNDING

\* C8 as stated: the cost under NoBounding is greater than or equal to the cost
\* under a stricter strategy (Sakoe-Chiba, Itakura) on the same pair.
C8_NoBoundingAtLeast ==
    StricterCall => (UnboundedResult.err = "none" /\ UnboundedResult.val >= res.val)

\* C8 amended: the cost under NoBounding is less than or equal to the cost under
\* a stricter strategy (Sakoe-Chiba, Itakura) on the same pair.
C8_NoBoundingAtMost ==
    StricterCall => (UnboundedResult.err = "none" /\ UnboundedResult.val <= res.val)

\* A pair on which the stricter strategy costs strictly more.
C8_Witness ==
    /\ StricterCall
    /\ UnboundedResult.err = "none"
    /\ UnboundedResult.val < res.val

\* C9: when _transform exits, by a normal return or by an exception of the inner
\* transform, numba's thread count is what it was before the call.
C9_ThreadCountRestored ==
    (lastCall.op = "transform" /\ lastCall.err \in {"none", "InnerError"})
        => numThreads = lastCall.before

\* C10: _fit on a panel of series length n < 9 raises ValueError and leaves
\* self.parameters as it was; for n >= 9 it raises nothing and sets
\* self.parameters to the fitted kernels.
C10_FitLengthCheck ==
    [][lastCall'.op = "fit" =>
         IF lastCall'.n < 9
         THEN lastCall'.err = "ValueError" /\ parameters' = parameters
         ELSE lastCall'.err = "none" /\ parameters' = Fitted(lastCall'.n)]_vars

\* A rejected fit after a successful one: the earlier parameters are kept.
C10_Witness ==
    /\ lastCall.op = "fit"
    /\ lastCall.n = 8
    /\ lastCall.err = "ValueError"
    /\ parameters = Fitted(9)
====
